---------------------------- MODULE Spec2Model ----------------------------
(***************************************************************************)
(* A model of the credly-go client (package credly): the authenticating   *)
(* dispatcher Client.Do and the five resource operations IssueBadge,      *)
(* GetBadges, GetBadge, GetBadgeTemplate and GetBadgeTemplates.           *)
(*                                                                         *)
(* Go strings are sequences of one-character strings, so that Base64 and  *)
(* URL escaping are computed the way the library computes them.           *)
(***************************************************************************)
EXTENDS Integers, Sequences, FiniteSets, TLC

(***************************************************************************)
(* Bounds of the model.                                                    *)
(***************************************************************************)
MaxTokenLen == 2
MaxCollections == 2
MaxList == 2

(***************************************************************************)
(* Characters and bytes.                                                   *)
(***************************************************************************)
\* The letters and digits in code order, and the other characters of the model
\* with their ASCII codes.
Lower ==
  <<"a", "b", "c", "d", "e", "f", "g", "h", "i", "j", "k", "l", "m", "n", "o", "p", "q",
    "r", "s", "t", "u", "v", "w", "x", "y", "z">>
Upper ==
  <<"A", "B", "C", "D", "E", "F", "G", "H", "I", "J", "K", "L", "M", "N", "O", "P", "Q",
    "R", "S", "T", "U", "V", "W", "X", "Y", "Z">>
Digit == <<"0", "1", "2", "3", "4", "5", "6", "7", "8", "9">>
Special ==
  {<<"\t", 9>>, <<" ", 32>>, <<"#", 35>>, <<"%", 37>>, <<"&", 38>>, <<"+", 43>>,
   <<",", 44>>, <<"-", 45>>, <<".", 46>>, <<"/", 47>>, <<":", 58>>, <<"=", 61>>,
   <<"?", 63>>, <<"@", 64>>, <<"[", 91>>, <<"]", 93>>, <<"_", 95>>, <<"|", 124>>,
   <<"~", 126>>}

Range(s) == {s[i] : i \in 1..Len(s)}

Letters == Range(Lower) \cup Range(Upper)
Digits == Range(Digit)

PosIn(s, c) == CHOOSE i \in 1..Len(s) : s[i] = c

\* The byte of a character.
Ord(c) ==
  IF c \in Range(Lower) THEN 96 + PosIn(Lower, c)
  ELSE IF c \in Range(Upper) THEN 64 + PosIn(Upper, c)
  ELSE IF c \in Range(Digit) THEN 47 + PosIn(Digit, c)
  ELSE (CHOOSE p \in Special : p[1] = c)[2]

\* The character of a byte.
Chr(n) ==
  IF n \in 97..122 THEN Lower[n - 96]
  ELSE IF n \in 65..90 THEN Upper[n - 64]
  ELSE IF n \in 48..57 THEN Digit[n - 47]
  ELSE (CHOOSE p \in Special : p[2] = n)[1]

Bytes(s) == [i \in 1..Len(s) |-> Ord(s[i])]

\* All sequences over S of length at most n.
SeqsUpTo(S, n) == UNION {[1..k -> S] : k \in 0..n}

(***************************************************************************)
(* encoding/base64: StdEncoding.EncodeToString.                            *)
(***************************************************************************)
encodeStd ==
  <<"A", "B", "C", "D", "E", "F", "G", "H", "I", "J", "K", "L", "M", "N", "O", "P",
    "Q", "R", "S", "T", "U", "V", "W", "X", "Y", "Z", "a", "b", "c", "d", "e", "f",
    "g", "h", "i", "j", "k", "l", "m", "n", "o", "p", "q", "r", "s", "t", "u", "v",
    "w", "x", "y", "z", "0", "1", "2", "3", "4", "5", "6", "7", "8", "9", "+", "/">>

StdPadding == "="

\* The 6-bit group of val that starts at bit `shift`.
Sextet(val, shift) == encodeStd[((val \div (2 ^ shift)) % 64) + 1]

RECURSIVE EncodeToString(_)
EncodeToString(src) ==
  IF Len(src) = 0 THEN <<>>
  ELSE IF Len(src) >= 3
    THEN LET val == src[1] * 65536 + src[2] * 256 + src[3]
         IN  <<Sextet(val, 18), Sextet(val, 12), Sextet(val, 6), Sextet(val, 0)>>
               \o EncodeToString(SubSeq(src, 4, Len(src)))
  ELSE IF Len(src) = 2
    THEN LET val == src[1] * 65536 + src[2] * 256
         IN  <<Sextet(val, 18), Sextet(val, 12), Sextet(val, 6), StdPadding>>
  ELSE LET val == src[1] * 65536
       IN  <<Sextet(val, 18), Sextet(val, 12), StdPadding, StdPadding>>

(***************************************************************************)
(* net/url: QueryEscape, QueryUnescape and the split of a raw query.       *)
(***************************************************************************)
upperhex == <<"0", "1", "2", "3", "4", "5", "6", "7", "8", "9", "A", "B", "C", "D", "E", "F">>

\* shouldEscape(c, encodeQueryComponent): everything but the unreserved characters.
shouldEscape(c) == c \notin (Letters \cup Digits \cup {"-", "_", ".", "~"})

EscapeChar(c) ==
  IF ~shouldEscape(c) THEN <<c>>
  ELSE IF c = " " THEN <<"+">>
  ELSE <<"%", upperhex[(Ord(c) \div 16) + 1], upperhex[(Ord(c) % 16) + 1]>>

\* The concatenation of the sequences of ss.
RECURSIVE Flatten(_)
Flatten(ss) ==
  IF Len(ss) = 0 THEN <<>>
  ELSE IF Len(ss) = 1 THEN ss[1]
  ELSE Flatten(SubSeq(ss, 1, Len(ss) \div 2)) \o Flatten(SubSeq(ss, (Len(ss) \div 2) + 1, Len(ss)))

QueryEscape(s) == Flatten([i \in 1..Len(s) |-> EscapeChar(s[i])])

unhex(c) == (CHOOSE i \in 1..16 : upperhex[i] = c) - 1

ishex(c) == c \in Range(upperhex)

\* The indexes of character c in s.
Positions(s, c) == {i \in 1..Len(s) : s[i] = c}

\* The first index of character c in s, or 0.
IndexOf(s, c) ==
  LET pos == Positions(s, c)
  IN  IF pos = {} THEN 0 ELSE CHOOSE i \in pos : \A j \in pos : i <= j

\* strings.Split of s at every c: the pieces between the occurrences of c.
Split(s, c) ==
  LET pos == Positions(s, c)
      Nth(n) == IF n = 0 THEN 0
                ELSE IF n > Cardinality(pos) THEN Len(s) + 1
                ELSE CHOOSE i \in pos : Cardinality({j \in pos : j < i}) = n - 1
  IN  [n \in 1..(Cardinality(pos) + 1) |-> SubSeq(s, Nth(n - 1) + 1, Nth(n) - 1)]

PlusToSpace(s) == [i \in 1..Len(s) |-> IF s[i] = "+" THEN " " ELSE s[i]]

\* QueryUnescape: [ok, s]; ok is FALSE on a "%" that two hex digits do not
\* follow.  What follows each "%" of s is a piece of s.
QueryUnescape(s) ==
  LET pieces == Split(s, "%")
      wellFormed == \A i \in 2..Len(pieces) :
                      Len(pieces[i]) >= 2 /\ ishex(pieces[i][1]) /\ ishex(pieces[i][2])
      Piece(i) == IF i = 1 THEN PlusToSpace(pieces[1])
                  ELSE <<Chr(unhex(pieces[i][1]) * 16 + unhex(pieces[i][2]))>>
                         \o PlusToSpace(SubSeq(pieces[i], 3, Len(pieces[i])))
  IN  IF wellFormed THEN [ok |-> TRUE, s |-> Flatten([i \in 1..Len(pieces) |-> Piece(i)])]
      ELSE [ok |-> FALSE, s |-> <<>>]

\* strings.Join(elems, sep)
RECURSIVE Join(_, _)
Join(elems, sep) ==
  IF Len(elems) = 0 THEN <<>>
  ELSE IF Len(elems) = 1 THEN elems[1]
  ELSE elems[1] \o sep \o Join(Tail(elems), sep)

\* url.URL.RawQuery of a raw URL: what follows the first "?", up to a fragment.
RawQuery(rawURL) ==
  LET hash == IndexOf(rawURL, "#")
      noFrag == IF hash = 0 THEN rawURL ELSE SubSeq(rawURL, 1, hash - 1)
      mark == IndexOf(noFrag, "?")
  IN  IF mark = 0 THEN <<>> ELSE SubSeq(noFrag, mark + 1, Len(noFrag))

\* url.ParseQuery: the key=value pairs of a raw query, each unescaped.
ParsePair(kv) ==
  LET eq == IndexOf(kv, "=")
      k  == IF eq = 0 THEN kv ELSE SubSeq(kv, 1, eq - 1)
      v  == IF eq = 0 THEN <<>> ELSE SubSeq(kv, eq + 1, Len(kv))
  IN  [key |-> QueryUnescape(k), value |-> QueryUnescape(v)]

ParseQuery(query) ==
  LET parts == Split(query, "&")
  IN  [i \in 1..Len(parts) |-> ParsePair(parts[i])]

(***************************************************************************)
(* Literals of the source.                                                 *)
(***************************************************************************)
ErrBadgeAlreadyIssued == "User already has this badge"

StatusOK == 200
StatusCreated == 201
StatusUnprocessableEntity == 422
StatusInternalServerError == 500

Sep == <<"|">>
BasicPrefix == <<"B", "a", "s", "i", "c", " ">>
ApplicationJson ==
  <<"a", "p", "p", "l", "i", "c", "a", "t", "i", "o", "n", "/", "j", "s", "o", "n">>
OrganizationsURL ==
  <<"h", "t", "t", "p", "s", ":", "/", "/", "a", "p", "i", ".", "c", "r", "e", "d", "l",
    "y", ".", "c", "o", "m", "/", "v", "1", "/", "o", "r", "g", "a", "n", "i", "z", "a",
    "t", "i", "o", "n", "s", "/">>
BadgesPath == <<"/", "b", "a", "d", "g", "e", "s">>
BadgeTemplatesPath ==
  <<"/", "b", "a", "d", "g", "e", "_", "t", "e", "m", "p", "l", "a", "t", "e", "s">>
EmailFilter ==
  <<"r", "e", "c", "i", "p", "i", "e", "n", "t", "_", "e", "m", "a", "i", "l", "_", "a",
    "l", "l", ":", ":">>
FilterParam == <<"?", "f", "i", "l", "t", "e", "r", "=">> \o EmailFilter
CollectionsFilter ==
  <<"|", "b", "a", "d", "g", "e", "_", "t", "e", "m", "p", "l", "a", "t", "e", "s", "[",
    "r", "e", "p", "o", "r", "t", "i", "n", "g", "_", "t", "a", "g", "s", "]", ":", ":">>
TemplateIdFilter ==
  <<"|", "b", "a", "d", "g", "e", "_", "t", "e", "m", "p", "l", "a", "t", "e", "_", "i",
    "d", ":", ":">>
IssuedAtLayout == "2006-01-02 15:04:05 -0700"

(***************************************************************************)
(* Errors.  nil is NilErr; an error made by fmt.Errorf keeps the pieces of *)
(* its format: the "[credly.Op] " prefix, the message, the %d status code  *)
(* and the %v cause.  An error of the transport or of http.NewRequest is   *)
(* an opaque value.                                                        *)
(***************************************************************************)
NilErr == [nil |-> TRUE]

Errorf(prefix, msg, hasCode, code, cause) ==
  [nil |-> FALSE, origin |-> "fmt.Errorf", prefix |-> prefix, msg |-> msg,
   hasCode |-> hasCode, code |-> code, cause |-> cause]

OpaqueErr(origin, text) ==
  [nil |-> FALSE, origin |-> origin, prefix |-> "", msg |-> text,
   hasCode |-> FALSE, code |-> 0, cause |-> ""]

TransportErrors == {OpaqueErr("transport", "dial tcp: i/o timeout")}
RedirectError == OpaqueErr("transport", "CheckRedirect: stopped after redirects")
ControlCharError == OpaqueErr("http.NewRequest", "net/url: invalid control character in URL")

(***************************************************************************)
(* encoding/json: documents, and Decode into the envelope types.           *)
(***************************************************************************)
JNull == [t |-> "null"]
JString(s) == [t |-> "string", s |-> s]
JArray(a) == [t |-> "array", a |-> a]
\* f maps the keys of the object to their values
JObject(f) == [t |-> "object", f |-> f]

\* The body of a response, as the decoder sees it: no bytes at all, bytes that
\* are no JSON value, or a JSON value.
EmptyBody == [kind |-> "empty"]
InvalidBody == [kind |-> "invalid"]
JsonBody(doc) == [kind |-> "json", doc |-> doc]

\* What Decode reports; "" is no error.
ErrEOF == "EOF"
ErrSyntax == "invalid character 'o' in literal null (expecting 'u')"
ErrType == "json: cannot unmarshal"

\* A string field of a struct: an absent key or null leaves the zero value, a
\* JSON value of another type is an UnmarshalTypeError.
StringField(f, key) ==
  IF key \notin DOMAIN f THEN [err |-> "", v |-> ""]
  ELSE IF f[key].t = "null" THEN [err |-> "", v |-> ""]
  ELSE IF f[key].t = "string" THEN [err |-> "", v |-> f[key].s]
  ELSE [err |-> ErrType, v |-> ""]

FirstErr(errs) ==
  IF \A i \in 1..Len(errs) : errs[i] = "" THEN ""
  ELSE errs[CHOOSE i \in 1..Len(errs) : errs[i] # "" /\ \A j \in 1..(i - 1) : errs[j] = ""]

ZeroBadgeTemplate == [Id |-> "", Name |-> ""]
ZeroBadgeInfo == [Id |-> "", State |-> "", Template |-> ZeroBadgeTemplate]

\* json into a BadgeTemplate
UnmarshalBadgeTemplate(j) ==
  IF j.t = "null" THEN [err |-> "", v |-> ZeroBadgeTemplate]
  ELSE IF j.t # "object" THEN [err |-> ErrType, v |-> ZeroBadgeTemplate]
  ELSE LET id == StringField(j.f, "id")
           name == StringField(j.f, "name")
       IN  [err |-> FirstErr(<<id.err, name.err>>), v |-> [Id |-> id.v, Name |-> name.v]]

\* json into a BadgeInfo
UnmarshalBadgeInfo(j) ==
  IF j.t = "null" THEN [err |-> "", v |-> ZeroBadgeInfo]
  ELSE IF j.t # "object" THEN [err |-> ErrType, v |-> ZeroBadgeInfo]
  ELSE LET id == StringField(j.f, "id")
           state == StringField(j.f, "state")
           tmpl == IF "badge_template" \in DOMAIN j.f
                     THEN UnmarshalBadgeTemplate(j.f["badge_template"])
                     ELSE [err |-> "", v |-> ZeroBadgeTemplate]
       IN  [err |-> FirstErr(<<id.err, state.err, tmpl.err>>),
            v |-> [Id |-> id.v, State |-> state.v, Template |-> tmpl.v]]

UnmarshalBadgeInfoList(j) ==
  IF j.t = "null" THEN [err |-> "", v |-> <<>>]
  ELSE IF j.t # "array" THEN [err |-> ErrType, v |-> <<>>]
  ELSE LET each == [i \in 1..Len(j.a) |-> UnmarshalBadgeInfo(j.a[i])]
       IN  [err |-> FirstErr([i \in 1..Len(j.a) |-> each[i].err]),
            v |-> [i \in 1..Len(j.a) |-> each[i].v]]

UnmarshalBadgeTemplateList(j) ==
  IF j.t = "null" THEN [err |-> "", v |-> <<>>]
  ELSE IF j.t # "array" THEN [err |-> ErrType, v |-> <<>>]
  ELSE LET each == [i \in 1..Len(j.a) |-> UnmarshalBadgeTemplate(j.a[i])]
       IN  [err |-> FirstErr([i \in 1..Len(j.a) |-> each[i].err]),
            v |-> [i \in 1..Len(j.a) |-> each[i].v]]

\* The "data" member of the envelope of a body, for json.NewDecoder(body).Decode
\* of a struct with the one field Data: [err, data], data JNull when absent.
EnvelopeData(body) ==
  IF body.kind = "empty" THEN [err |-> ErrEOF, data |-> JNull]
  ELSE IF body.kind = "invalid" THEN [err |-> ErrSyntax, data |-> JNull]
  ELSE IF body.doc.t = "null" THEN [err |-> "", data |-> JNull]
  ELSE IF body.doc.t # "object" THEN [err |-> ErrType, data |-> JNull]
  ELSE IF "data" \in DOMAIN body.doc.f THEN [err |-> "", data |-> body.doc.f["data"]]
  ELSE [err |-> "", data |-> JNull]

\* json.NewDecoder(resp.Body).Decode(&badgeResp), per envelope type: [err, Data]
DecodeIssueBadgeResponse(body) ==
  LET env == EnvelopeData(body)
      u == UnmarshalBadgeInfo(env.data)
  IN  IF env.err # "" THEN [err |-> env.err, Data |-> ZeroBadgeInfo]
      ELSE [err |-> u.err, Data |-> u.v]

DecodeGetBadgesResponse(body) ==
  LET env == EnvelopeData(body)
      u == UnmarshalBadgeInfoList(env.data)
  IN  IF env.err # "" THEN [err |-> env.err, Data |-> <<>>]
      ELSE [err |-> u.err, Data |-> u.v]

DecodeGetBadgeTemplateResponse(body) ==
  LET env == EnvelopeData(body)
      u == UnmarshalBadgeTemplate(env.data)
  IN  IF env.err # "" THEN [err |-> env.err, Data |-> ZeroBadgeTemplate]
      ELSE [err |-> u.err, Data |-> u.v]

DecodeGetBadgeTemplatesResponse(body) ==
  LET env == EnvelopeData(body)
      u == UnmarshalBadgeTemplateList(env.data)
  IN  IF env.err # "" THEN [err |-> env.err, Data |-> <<>>]
      ELSE [err |-> u.err, Data |-> u.v]

(***************************************************************************)
(* The client.                                                             *)
(***************************************************************************)
\* The transport a client holds: the *http.Client made by NewClient.
DefaultTransport == "http.Client"

\* NewClient without the separator appended to the token.
NewClient_NoSeparator(token, organizationId) ==
  [HTTPClient |-> DefaultTransport,
   authToken |-> EncodeToString(Bytes(token)),
   OrganizationId |-> organizationId]

NewClient(token, organizationId) ==
  [HTTPClient |-> DefaultTransport,
   authToken |-> EncodeToString(Bytes(token \o Sep)),
   OrganizationId |-> organizationId]

\* http.Header: a map from a key to the list of its values.
NoHeader == <<>>
HeaderSet(h, key, value) ==
  [k \in (DOMAIN h) \cup {key} |-> IF k = key THEN <<value>> ELSE h[k]]

\* Header.Add in place of Header.Set: the value joins the ones already there.
HeaderAdd(h, key, value) ==
  [k \in (DOMAIN h) \cup {key} |->
     IF k = key THEN (IF key \in DOMAIN h THEN Append(h[key], value) ELSE <<value>>)
     ELSE h[k]]

DoHeaders_Add(c, h) ==
  HeaderAdd(HeaderAdd(HeaderAdd(h, "Authorization", BasicPrefix \o c.authToken),
                      "Content-Type", ApplicationJson),
            "Accept", ApplicationJson)

\* The three Header.Set calls of Client.Do.
DoHeaders(c, h) ==
  HeaderSet(HeaderSet(HeaderSet(h, "Authorization", BasicPrefix \o c.authToken),
                      "Content-Type", ApplicationJson),
            "Accept", ApplicationJson)

\* A Do that inspects the response: a status of 400 or more becomes an error.
DoReturn_ChecksStatus(out) ==
  IF out.err.nil /\ out.resp.StatusCode >= 400
    THEN [resp |-> [nil |-> TRUE],
          err |-> OpaqueErr("credly.Do", "unexpected status")]
    ELSE out

\* What Client.Do returns, given what the transport returned.
DoReturn(out) == out

(***************************************************************************)
(* Requests and URLs.                                                      *)
(***************************************************************************)
NoBody == [present |-> FALSE]
NoReq == [Method |-> "", URL |-> <<>>, Header |-> NoHeader, Body |-> NoBody]

\* http.NewRequest fails on a URL that url.Parse rejects: one with a control
\* character in it.
NewRequestErr(rawURL) == IF "\t" \in Range(rawURL) THEN ControlCharError ELSE NilErr

NewRequest(method, rawURL, body) ==
  [Method |-> method, URL |-> rawURL, Header |-> NoHeader, Body |-> body]

IssueBadgeURL(c) == OrganizationsURL \o c.OrganizationId \o BadgesPath

IssueBadgeParams(templateId, email, firstName, lastName, now) ==
  [present |-> TRUE,
   badge_template_id |-> templateId,
   recipient_email |-> email,
   issued_to_first_name |-> firstName,
   issued_to_last_name |-> lastName,
   issued_at |-> [layout |-> IssuedAtLayout, time |-> now]]

\* GetBadges appending the collections clause unescaped, as GetBadge appends its own.
GetBadgesURL_ClauseUnescaped(c, email, collections) ==
  LET qUrl == OrganizationsURL \o c.OrganizationId \o BadgesPath
                \o FilterParam \o QueryEscape(email)
  IN  IF Len(collections) > 0
        THEN qUrl \o CollectionsFilter \o Join(collections, <<",">>)
        ELSE qUrl

GetBadgesURL(c, email, collections) ==
  LET qUrl == OrganizationsURL \o c.OrganizationId \o BadgesPath
                \o FilterParam \o QueryEscape(email)
  IN  IF Len(collections) > 0
        THEN qUrl \o QueryEscape(CollectionsFilter \o Join(collections, <<",">>))
        ELSE qUrl

GetBadgeURL(c, email, badgeId) ==
  OrganizationsURL \o c.OrganizationId \o BadgesPath
    \o FilterParam \o email \o TemplateIdFilter \o badgeId

GetBadgeTemplateURL(c, templateId) ==
  OrganizationsURL \o c.OrganizationId \o BadgeTemplatesPath \o <<"/">> \o templateId

GetBadgeTemplatesURL(c) == OrganizationsURL \o c.OrganizationId \o BadgeTemplatesPath

(***************************************************************************)
(* What each operation makes of what Do returned: the value and the error  *)
(* it returns, whether it decoded the body, and how often it closed it.    *)
(***************************************************************************)
Outcome(val, err, decoded, closed) ==
  [set |-> TRUE, val |-> val, err |-> err, decoded |-> decoded, closed |-> closed]

ApiFailed == "API request failed with status code: "
ParseFailed == "Failed to parse JSON data: "

\* IssueBadge with the 422 test after the test for 201.
IssueBadgeResult_ConflictTestedLate(out) ==
  IF ~out.err.nil THEN Outcome(ZeroBadgeInfo, out.err, FALSE, 0)
  ELSE IF out.resp.StatusCode # StatusCreated
    THEN Outcome(ZeroBadgeInfo,
                 Errorf("[credly.IssueBadge] ", ApiFailed, TRUE, out.resp.StatusCode, ""),
                 FALSE, 1)
  ELSE IF out.resp.StatusCode = StatusUnprocessableEntity
    THEN Outcome(ZeroBadgeInfo, Errorf("", ErrBadgeAlreadyIssued, FALSE, 0, ""), FALSE, 1)
  ELSE LET badgeResp == DecodeIssueBadgeResponse(out.resp.Body)
       IN  IF badgeResp.err # ""
             THEN Outcome(ZeroBadgeInfo,
                          Errorf("[credly.IssueBadge] ", ParseFailed, FALSE, 0, badgeResp.err),
                          TRUE, 1)
             ELSE Outcome(badgeResp.Data, NilErr, TRUE, 1)

\* IssueBadge taking 200 for success as the read operations do.
IssueBadgeResult_AcceptsOK(out) ==
  IF ~out.err.nil THEN Outcome(ZeroBadgeInfo, out.err, FALSE, 0)
  ELSE IF out.resp.StatusCode = StatusUnprocessableEntity
    THEN Outcome(ZeroBadgeInfo, Errorf("", ErrBadgeAlreadyIssued, FALSE, 0, ""), FALSE, 1)
  ELSE IF out.resp.StatusCode \notin {StatusCreated, StatusOK}
    THEN Outcome(ZeroBadgeInfo,
                 Errorf("[credly.IssueBadge] ", ApiFailed, TRUE, out.resp.StatusCode, ""),
                 FALSE, 1)
  ELSE LET badgeResp == DecodeIssueBadgeResponse(out.resp.Body)
       IN  IF badgeResp.err # ""
             THEN Outcome(ZeroBadgeInfo,
                          Errorf("[credly.IssueBadge] ", ParseFailed, FALSE, 0, badgeResp.err),
                          TRUE, 1)
             ELSE Outcome(badgeResp.Data, NilErr, TRUE, 1)

IssueBadgeResult(out) ==
  IF ~out.err.nil THEN Outcome(ZeroBadgeInfo, out.err, FALSE, 0)
  ELSE IF out.resp.StatusCode = StatusUnprocessableEntity
    THEN Outcome(ZeroBadgeInfo, Errorf("", ErrBadgeAlreadyIssued, FALSE, 0, ""), FALSE, 1)
  ELSE IF out.resp.StatusCode # StatusCreated
    THEN Outcome(ZeroBadgeInfo,
                 Errorf("[credly.IssueBadge] ", ApiFailed, TRUE, out.resp.StatusCode, ""),
                 FALSE, 1)
  ELSE LET badgeResp == DecodeIssueBadgeResponse(out.resp.Body)
       IN  IF badgeResp.err # ""
             THEN Outcome(ZeroBadgeInfo,
                          Errorf("[credly.IssueBadge] ", ParseFailed, FALSE, 0, badgeResp.err),
                          TRUE, 1)
             ELSE Outcome(badgeResp.Data, NilErr, TRUE, 1)

\* GetBadges returning the list without its last record.
GetBadgesResult_DropsLast(out) ==
  IF ~out.err.nil THEN Outcome(<<>>, out.err, FALSE, 0)
  ELSE IF out.resp.StatusCode # StatusOK
    THEN Outcome(<<>>,
                 Errorf("[credly.GetBadges] ", ApiFailed, TRUE, out.resp.StatusCode, ""),
                 FALSE, 1)
  ELSE LET badgesResp == DecodeGetBadgesResponse(out.resp.Body)
       IN  IF badgesResp.err # ""
             THEN Outcome(<<>>,
                          Errorf("[credly.GetBadges] ", ParseFailed, FALSE, 0, badgesResp.err),
                          TRUE, 1)
             ELSE Outcome(SubSeq(badgesResp.Data, 1, Len(badgesResp.Data) - 1), NilErr, TRUE, 1)

GetBadgesResult(out) ==
  IF ~out.err.nil THEN Outcome(<<>>, out.err, FALSE, 0)
  ELSE IF out.resp.StatusCode # StatusOK
    THEN Outcome(<<>>,
                 Errorf("[credly.GetBadges] ", ApiFailed, TRUE, out.resp.StatusCode, ""),
                 FALSE, 1)
  ELSE LET badgesResp == DecodeGetBadgesResponse(out.resp.Body)
       IN  IF badgesResp.err # ""
             THEN Outcome(<<>>,
                          Errorf("[credly.GetBadges] ", ParseFailed, FALSE, 0, badgesResp.err),
                          TRUE, 1)
             ELSE Outcome(badgesResp.Data, NilErr, TRUE, 1)

\* GetBadge with the status test of the other read operations.
GetBadgeResult_ChecksStatus(out) ==
  IF ~out.err.nil THEN Outcome(ZeroBadgeInfo, out.err, FALSE, 0)
  ELSE IF out.resp.StatusCode # StatusOK
    THEN Outcome(ZeroBadgeInfo,
                 Errorf("[credly.GetBadge] ", ApiFailed, TRUE, out.resp.StatusCode, ""),
                 FALSE, 1)
  ELSE LET badgesResp == DecodeGetBadgesResponse(out.resp.Body)
       IN  IF badgesResp.err # ""
             THEN Outcome(ZeroBadgeInfo,
                          Errorf("", ParseFailed, FALSE, 0, badgesResp.err), TRUE, 1)
           ELSE IF Len(badgesResp.Data) = 0
             THEN Outcome(ZeroBadgeInfo, NilErr, TRUE, 1)
           ELSE Outcome(badgesResp.Data[1], NilErr, TRUE, 1)

GetBadgeResult(out) ==
  IF ~out.err.nil THEN Outcome(ZeroBadgeInfo, out.err, FALSE, 0)
  ELSE LET badgesResp == DecodeGetBadgesResponse(out.resp.Body)
       IN  IF badgesResp.err # ""
             THEN Outcome(ZeroBadgeInfo,
                          Errorf("", ParseFailed, FALSE, 0, badgesResp.err), TRUE, 1)
           ELSE IF Len(badgesResp.Data) = 0
             THEN Outcome(ZeroBadgeInfo, NilErr, TRUE, 1)
           ELSE Outcome(badgesResp.Data[1], NilErr, TRUE, 1)

\* GetBadgeTemplate with the error prefix of the operation it was copied from.
GetBadgeTemplateResult_WrongName(out) ==
  IF ~out.err.nil THEN Outcome(ZeroBadgeTemplate, out.err, FALSE, 0)
  ELSE IF out.resp.StatusCode # StatusOK
    THEN Outcome(ZeroBadgeTemplate,
                 Errorf("[credly.GetBadgeTemplates] ", ApiFailed, TRUE, out.resp.StatusCode, ""),
                 FALSE, 1)
  ELSE LET badgeResp == DecodeGetBadgeTemplateResponse(out.resp.Body)
       IN  IF badgeResp.err # ""
             THEN Outcome(ZeroBadgeTemplate,
                          Errorf("[credly.GetBadgeTemplate] ", ParseFailed, FALSE, 0,
                                 badgeResp.err),
                          TRUE, 1)
             ELSE Outcome(badgeResp.Data, NilErr, TRUE, 1)

GetBadgeTemplateResult(out) ==
  IF ~out.err.nil THEN Outcome(ZeroBadgeTemplate, out.err, FALSE, 0)
  ELSE IF out.resp.StatusCode # StatusOK
    THEN Outcome(ZeroBadgeTemplate,
                 Errorf("[credly.GetBadgeTemplate] ", ApiFailed, TRUE, out.resp.StatusCode, ""),
                 FALSE, 1)
  ELSE LET badgeResp == DecodeGetBadgeTemplateResponse(out.resp.Body)
       IN  IF badgeResp.err # ""
             THEN Outcome(ZeroBadgeTemplate,
                          Errorf("[credly.GetBadgeTemplate] ", ParseFailed, FALSE, 0,
                                 badgeResp.err),
                          TRUE, 1)
             ELSE Outcome(badgeResp.Data, NilErr, TRUE, 1)

\* GetBadgeTemplates putting its name in front of the error of the transport.
GetBadgeTemplatesResult_WrapsTransportError(out) ==
  IF ~out.err.nil
    THEN Outcome(<<>>, Errorf("[credly.GetBadgeTemplates] ", out.err.msg, FALSE, 0, ""),
                 FALSE, 0)
  ELSE IF out.resp.StatusCode # StatusOK
    THEN Outcome(<<>>,
                 Errorf("[credly.GetBadgeTemplates] ", ApiFailed, TRUE, out.resp.StatusCode, ""),
                 FALSE, 1)
  ELSE LET badgeResp == DecodeGetBadgeTemplatesResponse(out.resp.Body)
       IN  IF badgeResp.err # ""
             THEN Outcome(<<>>,
                          Errorf("[credly.GetBadgeTemplates] ", ParseFailed, FALSE, 0,
                                 badgeResp.err),
                          TRUE, 1)
             ELSE Outcome(badgeResp.Data, NilErr, TRUE, 1)

GetBadgeTemplatesResult(out) ==
  IF ~out.err.nil THEN Outcome(<<>>, out.err, FALSE, 0)
  ELSE IF out.resp.StatusCode # StatusOK
    THEN Outcome(<<>>,
                 Errorf("[credly.GetBadgeTemplates] ", ApiFailed, TRUE, out.resp.StatusCode, ""),
                 FALSE, 1)
  ELSE LET badgeResp == DecodeGetBadgeTemplatesResponse(out.resp.Body)
       IN  IF badgeResp.err # ""
             THEN Outcome(<<>>,
                          Errorf("[credly.GetBadgeTemplates] ", ParseFailed, FALSE, 0,
                                 badgeResp.err),
                          TRUE, 1)
             ELSE Outcome(badgeResp.Data, NilErr, TRUE, 1)

(***************************************************************************)
(* Inputs: what the callers pass and what the transport answers.           *)
(***************************************************************************)
Tokens == SeqsUpTo({"t"}, MaxTokenLen) \cup {<<"k", "~">>}
\* the second one makes url.Parse fail
OrganizationIds == {<<"o", "1">>, <<"o", "\t">>}
Emails == {<<"a", "@", "b">>, <<"a", " ", "&", "#">>, <<"\t">>}
TemplateIds == {<<"T", "1">>}
BadgeIds == {<<"T", "1">>}
PersonNames == {<<"J">>}
Times == {"now"}
Tags == {<<"c", "1">>, <<"c", ",", "&">>}
CollectionLists == SeqsUpTo(Tags, MaxCollections)

Methods == {"GET", "DELETE"}
RequestBodies == {NoBody, [present |-> TRUE, raw |-> "payload"]}
CallerHeaders ==
  {NoHeader,
   "Authorization" :> <<(<<"B", "e", "a", "r", "e", "r", " ", "x">>)>>,
   ("Accept" :> <<(<<"t", "e", "x", "t">>), (<<"x", "m", "l">>)>>)
     @@ ("Content-Type" :> <<(<<"t", "e", "x", "t">>)>>),
   "X-Trace" :> <<(<<"1">>)>>}

Record1 ==
  JObject([id |-> JString("badge-123"), state |-> JString("issued"),
           name |-> JString("Test Badge"),
           badge_template |-> JObject([id |-> JString("template-123"),
                                       name |-> JString("Test Badge")])])
Record2 == JObject([id |-> JString("badge-456"), name |-> JString("Badge 2")])
RecordObjects == {Record1, Record2}

Documents ==
  {JNull, JString("x"), JObject(<<>>), JObject([data |-> JNull]),
   JObject([data |-> JString("x")]),
   JObject([data |-> JObject([id |-> JArray(<<>>), name |-> JString("n")])])}
    \cup {JObject([data |-> r]) : r \in RecordObjects}
    \cup {JObject([data |-> JArray(a)]) : a \in SeqsUpTo(RecordObjects, MaxList)}

Bodies == {EmptyBody, InvalidBody} \cup {JsonBody(d) : d \in Documents}

Statuses == {StatusOK, StatusCreated, StatusUnprocessableEntity, StatusInternalServerError}

NilResp == [nil |-> TRUE]
Response(status, body, closed) ==
  [nil |-> FALSE, StatusCode |-> status, Body |-> body, BodyClosed |-> closed]

\* What HTTPClient.Do can return: a response and no error; no response and an
\* error; or, when a redirect is refused, an error with the last response, its
\* body already closed.
TransportOutcomes ==
  {[resp |-> Response(st, body, FALSE), err |-> NilErr] : st \in Statuses, body \in Bodies}
    \cup {[resp |-> NilResp, err |-> e] : e \in TransportErrors}
    \cup {[resp |-> Response(StatusOK, EmptyBody, TRUE), err |-> RedirectError]}

(***************************************************************************)
(* State.                                                                  *)
(***************************************************************************)
Procs == {"p1", "p2"}

VARIABLES
  client,  \* the Client value all calls share
  ctor,    \* the arguments NewClient was called with
  active,  \* the callers that make calls
  calls,   \* per caller: the call it is making, or made last
  used     \* whether a call has returned on the client before

vars == <<client, ctor, active, calls, used>>

NoOut == [resp |-> NilResp, err |-> NilErr]
NoRet == [set |-> FALSE]
NoArgs ==
  [templateId |-> <<>>, email |-> <<>>, firstName |-> <<>>, lastName |-> <<>>,
   collections |-> <<>>, badgeId |-> <<>>]

\* pc: "idle" between calls; "built" with the request made; "headers"
\* inside Do, the headers set; "sent" once Do has returned to the operation;
\* "done" once the call has returned to its caller.
IdleCall ==
  [pc |-> "idle", op |-> "", args |-> NoArgs, req |-> NoReq, hdr0 |-> NoHeader,
   sent |-> <<>>, tOut |-> NoOut, doOut |-> NoOut, ret |-> NoRet]

Init ==
  /\ \E token \in Tokens, organizationId \in OrganizationIds :
       /\ ctor = [token |-> token, organizationId |-> organizationId]
       /\ client = NewClient(token, organizationId)
  /\ active = {"p1"}
  /\ calls = [p \in Procs |-> IdleCall]
  /\ used = FALSE

CanCall(p) == p \in active /\ calls[p].pc = "idle"

\* The start of a resource operation, up to the call of c.Do(req): the request
\* is made, or http.NewRequest fails and the operation returns zero and its error.
Begin(p, op, args, method, rawURL, body, zero) ==
  /\ calls' = [calls EXCEPT ![p] =
    IF NewRequestErr(rawURL).nil
      THEN [IdleCall EXCEPT !.pc = "built", !.op = op, !.args = args,
                            !.req = NewRequest(method, rawURL, body)]
      ELSE [IdleCall EXCEPT !.pc = "done", !.op = op, !.args = args,
                            !.ret = Outcome(zero, NewRequestErr(rawURL), FALSE, 0)]]

IssueBadge(p) ==
  /\ CanCall(p)
  /\ \E templateId \in TemplateIds, email \in Emails, firstName \in PersonNames,
        lastName \in PersonNames, now \in Times :
       Begin(p, "IssueBadge",
             [NoArgs EXCEPT !.templateId = templateId, !.email = email,
                            !.firstName = firstName, !.lastName = lastName],
             "POST", IssueBadgeURL(client),
             IssueBadgeParams(templateId, email, firstName, lastName, now),
             ZeroBadgeInfo)
  /\ UNCHANGED <<client, ctor, active, used>>

GetBadges(p) ==
  /\ CanCall(p)
  /\ \E email \in Emails, collections \in CollectionLists :
       Begin(p, "GetBadges",
             [NoArgs EXCEPT !.email = email, !.collections = collections],
             "GET", GetBadgesURL(client, email, collections), NoBody, <<>>)
  /\ UNCHANGED <<client, ctor, active, used>>

GetBadge(p) ==
  /\ CanCall(p)
  /\ \E email \in Emails, badgeId \in BadgeIds :
       Begin(p, "GetBadge", [NoArgs EXCEPT !.email = email, !.badgeId = badgeId],
             "GET", GetBadgeURL(client, email, badgeId), NoBody, ZeroBadgeInfo)
  /\ UNCHANGED <<client, ctor, active, used>>

GetBadgeTemplate(p) ==
  /\ CanCall(p)
  /\ \E templateId \in TemplateIds :
       Begin(p, "GetBadgeTemplate", [NoArgs EXCEPT !.templateId = templateId],
             "GET", GetBadgeTemplateURL(client, templateId), NoBody, ZeroBadgeTemplate)
  /\ UNCHANGED <<client, ctor, active, used>>

GetBadgeTemplates(p) ==
  /\ CanCall(p)
  /\ Begin(p, "GetBadgeTemplates", NoArgs, "GET", GetBadgeTemplatesURL(client), NoBody, <<>>)
  /\ UNCHANGED <<client, ctor, active, used>>

\* A caller of the exported Do, with a request from http.NewRequest whose
\* headers it may have set.
CallDo(p) ==
  /\ CanCall(p)
  /\ \E method \in Methods, body \in RequestBodies, hdr \in CallerHeaders :
       calls' = [calls EXCEPT ![p] =
         [IdleCall EXCEPT !.pc = "built", !.op = "Do", !.hdr0 = hdr,
            !.req = [NewRequest(method, OrganizationsURL, body) EXCEPT !.Header = hdr]]]
  /\ UNCHANGED <<client, ctor, active, used>>

\* A Do that encodes the token on every call and keeps the result in the client.
DoSetHeaders_ReencodesToken(p) ==
  /\ calls[p].pc = "built"
  /\ client' = [client EXCEPT !.authToken = EncodeToString(Bytes(client.authToken \o Sep))]
  /\ calls' = [calls EXCEPT ![p].pc = "headers",
                            ![p].req.Header = DoHeaders(client', calls[p].req.Header)]
  /\ UNCHANGED <<ctor, active, used>>

\* Client.Do, its three Header.Set calls.
DoSetHeaders(p) ==
  /\ calls[p].pc = "built"
  /\ calls' = [calls EXCEPT ![p].pc = "headers",
                            ![p].req.Header = DoHeaders(client, calls[p].req.Header)]
  /\ UNCHANGED <<client, ctor, active, used>>

\* A Do that keeps the last response in a place all calls share: a call whose
\* request is answered while another call holds a response not yet returned
\* gets that response.
DoSend_SharedResponse(p) ==
  /\ calls[p].pc = "headers"
  /\ \E out \in TransportOutcomes :
       calls' = [calls EXCEPT ![p] =
         [@ EXCEPT !.sent = Append(@, calls[p].req),
                   !.tOut = out,
                   !.doOut = IF \E q \in Procs \ {p} : calls[q].pc = "sent"
                               THEN calls[CHOOSE q \in Procs \ {p} : calls[q].pc = "sent"].doOut
                               ELSE DoReturn(out),
                   !.pc = IF calls[p].op = "Do" THEN "done" ELSE "sent"]]
  /\ UNCHANGED <<client, ctor, active, used>>

\* Client.Do, its return c.HTTPClient.Do(req): the transport is handed the
\* request and answers, and Do returns.
DoSend(p) ==
  /\ calls[p].pc = "headers"
  /\ \E out \in TransportOutcomes :
       calls' = [calls EXCEPT ![p] =
         [@ EXCEPT !.sent = Append(@, calls[p].req),
                   !.tOut = out,
                   !.doOut = DoReturn(out),
                   !.pc = IF calls[p].op = "Do" THEN "done" ELSE "sent"]]
  /\ UNCHANGED <<client, ctor, active, used>>

\* An operation that makes its request a second time when the first one failed.
Finish_RetriesOnce(p, op, result) ==
  /\ calls[p].pc = "sent"
  /\ calls[p].op = op
  /\ calls' = [calls EXCEPT ![p] =
       IF ~result.err.nil /\ Len(calls[p].sent) < 2
         THEN [@ EXCEPT !.pc = "built"]
         ELSE [@ EXCEPT !.pc = "done", !.ret = result]]
  /\ UNCHANGED <<client, ctor, active, used>>

\* The rest of a resource operation, from the return of c.Do(req).
Finish(p, op, result) ==
  /\ calls[p].pc = "sent"
  /\ calls[p].op = op
  /\ calls' = [calls EXCEPT ![p].pc = "done", ![p].ret = result]
  /\ UNCHANGED <<client, ctor, active, used>>

IssueBadgeReturn(p) == Finish(p, "IssueBadge", IssueBadgeResult(calls[p].doOut))
GetBadgesReturn(p) == Finish(p, "GetBadges", GetBadgesResult(calls[p].doOut))
GetBadgeReturn(p) == Finish(p, "GetBadge", GetBadgeResult(calls[p].doOut))
GetBadgeTemplateReturn(p) ==
  Finish(p, "GetBadgeTemplate", GetBadgeTemplateResult(calls[p].doOut))
GetBadgeTemplatesReturn(p) ==
  Finish(p, "GetBadgeTemplates", GetBadgeTemplatesResult(calls[p].doOut))

\* The caller has taken what the call returned and is free to call again.
Forget(p) ==
  /\ calls[p].pc = "done"
  /\ calls' = [calls EXCEPT ![p] = IdleCall]
  /\ used' = TRUE
  /\ UNCHANGED <<client, ctor, active>>

Next ==
  \E p \in Procs :
    \/ IssueBadge(p)
    \/ GetBadges(p)
    \/ GetBadge(p)
    \/ GetBadgeTemplate(p)
    \/ GetBadgeTemplates(p)
    \/ CallDo(p)
    \/ DoSetHeaders(p)
    \/ DoSend(p)
    \/ IssueBadgeReturn(p)
    \/ GetBadgesReturn(p)
    \/ GetBadgeReturn(p)
    \/ GetBadgeTemplateReturn(p)
    \/ GetBadgeTemplatesReturn(p)
    \/ Forget(p)

Spec == Init /\ [][Next]_vars

(***************************************************************************)
(* Two callers that use the one client at the same time.  The callers pass *)
(* and the transport answers a part of the inputs above, so that every     *)
(* interleaving of two calls is covered.                                   *)
(***************************************************************************)
ConcEmails == {<<"a", "@", "b">>, <<"\t">>}
ConcCollectionLists == {<<>>, <<(<<"c", "1">>)>>}
ConcBodies ==
  {InvalidBody, JsonBody(JObject([data |-> Record1])),
   JsonBody(JObject([data |-> JArray(<<Record2, Record1>>)]))}
ConcOutcomes ==
  {[resp |-> Response(st, body, FALSE), err |-> NilErr] : st \in Statuses, body \in ConcBodies}
    \cup {[resp |-> NilResp, err |-> e] : e \in TransportErrors}

ConcInit ==
  /\ ctor = [token |-> <<"t">>, organizationId |-> <<"o", "1">>]
  /\ client = NewClient(<<"t">>, <<"o", "1">>)
  /\ active = Procs
  /\ calls = [p \in Procs |-> IdleCall]
  /\ used = FALSE

\* The calls in progress were made and answered with the inputs above.
ConcInputs ==
  \A p \in Procs :
    /\ calls[p].args.email \in ConcEmails \cup {<<>>}
    /\ calls[p].args.collections \in ConcCollectionLists
    /\ calls[p].tOut \in ConcOutcomes \cup {NoOut}
    /\ calls[p].op = "Do" =>
         /\ calls[p].req.Method = "GET"
         /\ ~calls[p].req.Body.present
         /\ calls[p].hdr0 = NoHeader

ConcNext ==
  \E p \in Procs :
    \/ IssueBadge(p) /\ ConcInputs'
    \/ GetBadges(p) /\ ConcInputs'
    \/ GetBadge(p) /\ ConcInputs'
    \/ GetBadgeTemplate(p) /\ ConcInputs'
    \/ GetBadgeTemplates(p) /\ ConcInputs'
    \/ CallDo(p) /\ ConcInputs'
    \/ DoSetHeaders(p)
    \/ DoSend(p) /\ ConcInputs'
    \/ IssueBadgeReturn(p)
    \/ GetBadgesReturn(p)
    \/ GetBadgeReturn(p)
    \/ GetBadgeTemplateReturn(p)
    \/ GetBadgeTemplatesReturn(p)
    \/ Forget(p)

ConcSpec == ConcInit /\ [][ConcNext]_vars

(***************************************************************************)
(* Properties.                                                             *)
(***************************************************************************)
Done(p, op) == calls[p].pc = "done" /\ calls[p].op = op

\* The transport answered the call of p with a response and no error.
Answered(p) ==
  /\ Len(calls[p].sent) > 0
  /\ calls[p].tOut.err.nil
  /\ ~calls[p].tOut.resp.nil

Credential == EncodeToString(Bytes(ctor.token \o <<"|">>))

\* C1: the client made by NewClient(token, orgId) holds Base64(token + "|") as
\* its token, in every state, whatever calls were made on it; and every request
\* handed to the transport carries Authorization "Basic " + Base64(token + "|").
\* The encodings of four tokens are spelled out (RFC 4648 values).
C1_TokenIsBase64OfTokenAndSeparator ==
  /\ client.authToken = Credential
  /\ (ctor.token = <<>>) => (client.authToken = <<"f", "A", "=", "=">>)
  /\ (ctor.token = <<"t">>) => (client.authToken = <<"d", "H", "w", "=">>)
  /\ (ctor.token = <<"t", "t">>) => (client.authToken = <<"d", "H", "R", "8">>)
  /\ (ctor.token = <<"k", "~">>) => (client.authToken = <<"a", "3", "5", "8">>)
  /\ \A p \in Procs : \A i \in 1..Len(calls[p].sent) :
       calls[p].sent[i].Header["Authorization"]
         = <<(<<"B", "a", "s", "i", "c", " ">> \o Credential)>>

\* A later call on a client built from the token "t" has handed its request to
\* the transport.
C1_Witness ==
  \E p \in Procs :
    /\ used
    /\ ctor.token = <<"t">>
    /\ calls[p].op = "GetBadge"
    /\ Len(calls[p].sent) = 1

FixedHeaders == {"Authorization", "Content-Type", "Accept"}

\* C2: every request Client.Do hands to the transport has the three fixed
\* headers, each with exactly one value: Authorization "Basic " + authToken,
\* Content-Type application/json and Accept application/json, whatever the
\* method, the body and the values the caller had set for them; the headers the
\* caller had set under other keys are the only other ones, as the caller set them.
C2_ThreeFixedHeaders ==
  \A p \in Procs : \A i \in 1..Len(calls[p].sent) :
    LET h == calls[p].sent[i].Header
    IN  /\ DOMAIN h = FixedHeaders \cup DOMAIN calls[p].hdr0
        /\ h["Authorization"] = <<(<<"B", "a", "s", "i", "c", " ">> \o client.authToken)>>
        /\ h["Content-Type"]
             = <<(<<"a", "p", "p", "l", "i", "c", "a", "t", "i", "o", "n", "/", "j", "s", "o", "n">>)>>
        /\ h["Accept"]
             = <<(<<"a", "p", "p", "l", "i", "c", "a", "t", "i", "o", "n", "/", "j", "s", "o", "n">>)>>
        /\ \A k \in DOMAIN calls[p].hdr0 \ FixedHeaders : h[k] = calls[p].hdr0[k]

\* A DELETE request with a body, whose caller had set two Accept values and
\* another Content-Type, has been handed to the transport.
C2_Witness ==
  \E p \in Procs :
    /\ calls[p].op = "Do"
    /\ Len(calls[p].sent) = 1
    /\ calls[p].sent[1].Method = "DELETE"
    /\ calls[p].sent[1].Body.present
    /\ "Accept" \in DOMAIN calls[p].hdr0
    /\ Len(calls[p].hdr0["Accept"]) = 2

\* C3: an invocation of Client.Do hands the request to the transport exactly
\* once, and what it returns is the (response, error) pair the transport
\* returned, whatever the status code and whatever the pair.
C3_DoOnceAndVerbatim ==
  \A p \in Procs :
    /\ calls[p].pc \in {"idle", "built", "headers"} => Len(calls[p].sent) = 0
    /\ (calls[p].pc = "sent" \/ Done(p, "Do")) =>
         /\ Len(calls[p].sent) = 1
         /\ calls[p].sent[1] = calls[p].req
         /\ calls[p].doOut = calls[p].tOut
    /\ calls[p].pc = "done" => Len(calls[p].sent) <= 1

\* Do has returned a 500 response, with no error, to its caller.
C3_Witness ==
  \E p \in Procs :
    /\ Done(p, "Do")
    /\ calls[p].tOut.err.nil
    /\ ~calls[p].doOut.resp.nil
    /\ calls[p].doOut.resp.StatusCode = 500

\* Do has returned the transport's error, and no response, to its caller.
C3_WitnessError ==
  \E p \in Procs :
    /\ Done(p, "Do")
    /\ ~calls[p].doOut.err.nil
    /\ calls[p].doOut.resp.nil

Status(p) == calls[p].tOut.resp.StatusCode
RespBody(p) == calls[p].tOut.resp.Body

\* A call that has returned after the transport answered it with a response.
Returned(p, op) == Done(p, op) /\ Answered(p)

\* The body is the envelope {"data": r} of one record of RecordObjects.
IsRecordEnvelope(body) ==
  /\ body.kind = "json"
  /\ body.doc.t = "object"
  /\ "data" \in DOMAIN body.doc.f
  /\ body.doc.f["data"] \in RecordObjects

\* The body is the envelope {"data": [r, ...]} of a list of records of RecordObjects.
IsListEnvelope(body) ==
  /\ body.kind = "json"
  /\ body.doc.t = "object"
  /\ "data" \in DOMAIN body.doc.f
  /\ body.doc.f["data"].t = "array"
  /\ \A i \in 1..Len(body.doc.f["data"].a) : body.doc.f["data"].a[i] \in RecordObjects

EnvelopeRecord(body) == body.doc.f["data"]
EnvelopeList(body) == body.doc.f["data"].a

\* The two records of the responses, as the values a caller is to get.
ExpectedBadgeInfo(r) ==
  IF r = Record1
    THEN [Id |-> "badge-123", State |-> "issued",
          Template |-> [Id |-> "template-123", Name |-> "Test Badge"]]
    ELSE [Id |-> "badge-456", State |-> "", Template |-> [Id |-> "", Name |-> ""]]

ExpectedBadgeTemplate(r) ==
  IF r = Record1 THEN [Id |-> "badge-123", Name |-> "Test Badge"]
  ELSE [Id |-> "badge-456", Name |-> "Badge 2"]

EmptyBadgeInfo == [Id |-> "", State |-> "", Template |-> [Id |-> "", Name |-> ""]]
EmptyBadgeTemplate == [Id |-> "", Name |-> ""]

\* C4: IssueBadge answered with status 422, whatever the body, returns the
\* error whose text is exactly "User already has this badge" (no prefix, no
\* status code, no cause: not the generic API failure) and the zero BadgeInfo.
C4_ConflictOn422 ==
  \A p \in Procs :
    (Returned(p, "IssueBadge") /\ Status(p) = 422) =>
      /\ ~calls[p].ret.err.nil
      /\ calls[p].ret.err.prefix = ""
      /\ calls[p].ret.err.msg = "User already has this badge"
      /\ ~calls[p].ret.err.hasCode
      /\ calls[p].ret.err.cause = ""
      /\ calls[p].ret.val = EmptyBadgeInfo

\* IssueBadge has returned from a 422 response whose body is a well-formed
\* BadgeInfo envelope.
C4_Witness ==
  \E p \in Procs :
    /\ Returned(p, "IssueBadge")
    /\ Status(p) = 422
    /\ IsRecordEnvelope(RespBody(p))
    /\ EnvelopeRecord(RespBody(p)) = Record1

\* C5: IssueBadge answered with a status other than 201 and 422 returns the
\* generic error "API request failed with status code: <status>" and the zero
\* BadgeInfo, and does not decode the body.
C5_GenericFailureOnOtherStatus ==
  \A p \in Procs :
    (Returned(p, "IssueBadge") /\ Status(p) \notin {201, 422}) =>
      /\ ~calls[p].ret.err.nil
      /\ calls[p].ret.err.msg = "API request failed with status code: "
      /\ calls[p].ret.err.hasCode
      /\ calls[p].ret.err.code = Status(p)
      /\ calls[p].ret.val = EmptyBadgeInfo
      /\ ~calls[p].ret.decoded

\* IssueBadge has returned from a 200 response whose body is a well-formed
\* BadgeInfo envelope.
C5_Witness ==
  \E p \in Procs :
    /\ Returned(p, "IssueBadge")
    /\ Status(p) = 200
    /\ IsRecordEnvelope(RespBody(p))

\* C6: on its success status (201 for IssueBadge, 200 for GetBadges,
\* GetBadgeTemplate and GetBadgeTemplates) and a well-formed envelope, an
\* operation returns no error and the data of the envelope: the record, or the
\* records of the list, as many and in the order of the envelope.
C6_SuccessReturnsEnvelopeData ==
  \A p \in Procs :
    /\ (Returned(p, "IssueBadge") /\ Status(p) = 201 /\ IsRecordEnvelope(RespBody(p))) =>
         /\ calls[p].ret.err.nil
         /\ calls[p].ret.val = ExpectedBadgeInfo(EnvelopeRecord(RespBody(p)))
    /\ (Returned(p, "GetBadgeTemplate") /\ Status(p) = 200
          /\ IsRecordEnvelope(RespBody(p))) =>
         /\ calls[p].ret.err.nil
         /\ calls[p].ret.val = ExpectedBadgeTemplate(EnvelopeRecord(RespBody(p)))
    /\ (Returned(p, "GetBadges") /\ Status(p) = 200 /\ IsListEnvelope(RespBody(p))) =>
         /\ calls[p].ret.err.nil
         /\ Len(calls[p].ret.val) = Len(EnvelopeList(RespBody(p)))
         /\ \A i \in 1..Len(EnvelopeList(RespBody(p))) :
              calls[p].ret.val[i] = ExpectedBadgeInfo(EnvelopeList(RespBody(p))[i])
    /\ (Returned(p, "GetBadgeTemplates") /\ Status(p) = 200
          /\ IsListEnvelope(RespBody(p))) =>
         /\ calls[p].ret.err.nil
         /\ Len(calls[p].ret.val) = Len(EnvelopeList(RespBody(p)))
         /\ \A i \in 1..Len(EnvelopeList(RespBody(p))) :
              calls[p].ret.val[i] = ExpectedBadgeTemplate(EnvelopeList(RespBody(p))[i])

\* GetBadges has returned the two records of a 200 response, badge-456 first.
C6_Witness ==
  \E p \in Procs :
    /\ Returned(p, "GetBadges")
    /\ Status(p) = 200
    /\ IsListEnvelope(RespBody(p))
    /\ EnvelopeList(RespBody(p)) = <<Record2, Record1>>
    /\ calls[p].ret.err.nil
    /\ Len(calls[p].ret.val) = 2
    /\ calls[p].ret.val[1].Id = "badge-456"

ReadOps == {"GetBadges", "GetBadgeTemplate", "GetBadgeTemplates"}

\* The name an operation puts in front of its errors.
OpPrefix(op) ==
  CASE op = "IssueBadge" -> "[credly.IssueBadge] "
    [] op = "GetBadges" -> "[credly.GetBadges] "
    [] op = "GetBadge" -> "[credly.GetBadge] "
    [] op = "GetBadgeTemplate" -> "[credly.GetBadgeTemplate] "
    [] op = "GetBadgeTemplates" -> "[credly.GetBadgeTemplates] "

\* The zero value of what an operation returns.
ZeroOf(op) ==
  CASE op \in {"IssueBadge", "GetBadge"} -> EmptyBadgeInfo
    [] op = "GetBadgeTemplate" -> EmptyBadgeTemplate
    [] op \in {"GetBadges", "GetBadgeTemplates"} -> <<>>

\* C7: GetBadges, GetBadgeTemplate and GetBadgeTemplates decode the body of a
\* response if and only if its status is 200; on any other status they return
\* the generic error "API request failed with status code: <status>" with the
\* name of the operation in front, and the zero value.
C7_ReadsDecodeOnlyOn200 ==
  \A p \in Procs : \A op \in ReadOps :
    Returned(p, op) =>
      /\ calls[p].ret.decoded <=> (Status(p) = 200)
      /\ (Status(p) # 200) =>
           /\ ~calls[p].ret.err.nil
           /\ calls[p].ret.err.prefix = OpPrefix(op)
           /\ calls[p].ret.err.msg = "API request failed with status code: "
           /\ calls[p].ret.err.hasCode
           /\ calls[p].ret.err.code = Status(p)
           /\ calls[p].ret.val = ZeroOf(op)

\* GetBadgeTemplate has returned from a 201 response whose body is a
\* well-formed envelope.
C7_Witness ==
  \E p \in Procs :
    /\ Returned(p, "GetBadgeTemplate")
    /\ Status(p) = 201
    /\ IsRecordEnvelope(RespBody(p))

\* C8: GetBadge does not look at the status: for every status, the envelope of
\* an empty list gives the zero BadgeInfo and no error, the envelope of a
\* non-empty list gives its first record and no error, and no response gives the
\* generic API failure.
C8_GetBadgeIgnoresStatus ==
  \A p \in Procs :
    Returned(p, "GetBadge") =>
      /\ IsListEnvelope(RespBody(p)) =>
           /\ calls[p].ret.err.nil
           /\ Len(EnvelopeList(RespBody(p))) = 0 => calls[p].ret.val = EmptyBadgeInfo
           /\ Len(EnvelopeList(RespBody(p))) > 0 =>
                calls[p].ret.val = ExpectedBadgeInfo(EnvelopeList(RespBody(p))[1])
      /\ calls[p].ret.err.nil \/ calls[p].ret.err.msg # "API request failed with status code: "
      /\ calls[p].ret.decoded

\* GetBadge has returned badge-456, the first of the two records of a 500 response.
C8_Witness ==
  \E p \in Procs :
    /\ Returned(p, "GetBadge")
    /\ Status(p) = 500
    /\ IsListEnvelope(RespBody(p))
    /\ EnvelopeList(RespBody(p)) = <<Record2, Record1>>
    /\ calls[p].ret.err.nil
    /\ calls[p].ret.val.Id = "badge-456"

\* GetBadge has returned the zero BadgeInfo and no error from the empty list
\* of a 422 response.
C8_WitnessEmpty ==
  \E p \in Procs :
    /\ Returned(p, "GetBadge")
    /\ Status(p) = 422
    /\ IsListEnvelope(RespBody(p))
    /\ EnvelopeList(RespBody(p)) = <<>>
    /\ calls[p].ret.err.nil
    /\ calls[p].ret.val = EmptyBadgeInfo

AllOps == {"IssueBadge", "GetBadges", "GetBadge", "GetBadgeTemplate", "GetBadgeTemplates"}

SuccessStatus(op) == IF op = "IssueBadge" THEN 201 ELSE 200

\* The body is no JSON document: it is empty or its bytes do not parse.
Malformed(body) == body.kind \in {"empty", "invalid"}

\* C9: for each of the five operations, a malformed body on the successful
\* status gives the error "Failed to parse JSON data: <parse error>" with the
\* name of the operation in front, and the zero value.
C9_DecodeFailureNamesOperation ==
  \A p \in Procs : \A op \in AllOps :
    (Returned(p, op) /\ Status(p) = SuccessStatus(op) /\ Malformed(RespBody(p))) =>
      /\ ~calls[p].ret.err.nil
      /\ calls[p].ret.err.msg = "Failed to parse JSON data: "
      /\ calls[p].ret.err.cause # ""
      /\ calls[p].ret.err.prefix = OpPrefix(op)
      /\ calls[p].ret.val = ZeroOf(op)

\* The part of C9 that the code does: a malformed body on the successful
\* status gives the error "Failed to parse JSON data: <parse error>" and the
\* zero value, for the five operations, and the name of the operation is in
\* front for all but GetBadge.
C9_DecodeFailureReported ==
  \A p \in Procs : \A op \in AllOps :
    (Returned(p, op) /\ Status(p) = SuccessStatus(op) /\ Malformed(RespBody(p))) =>
      /\ ~calls[p].ret.err.nil
      /\ calls[p].ret.err.msg = "Failed to parse JSON data: "
      /\ calls[p].ret.err.cause # ""
      /\ calls[p].ret.err.prefix = (IF op = "GetBadge" THEN "" ELSE OpPrefix(op))
      /\ calls[p].ret.val = ZeroOf(op)

\* The URL of the request GetBadges made, and its one query parameter.
FilterOf(p) == ParseQuery(RawQuery(calls[p].req.URL))

CollectionsClause(collections) ==
  <<"|", "b", "a", "d", "g", "e", "_", "t", "e", "m", "p", "l", "a", "t", "e", "s", "[",
    "r", "e", "p", "o", "r", "t", "i", "n", "g", "_", "t", "a", "g", "s", "]", ":", ":">>
    \o Join(collections, <<",">>)

RecipientClause(email) ==
  <<"r", "e", "c", "i", "p", "i", "e", "n", "t", "_", "e", "m", "a", "i", "l", "_", "a",
    "l", "l", ":", ":">> \o email

URL_TwoCollections ==
  <<"h", "t", "t", "p", "s", ":", "/", "/", "a", "p", "i", ".", "c", "r", "e", "d", "l",
    "y", ".", "c", "o", "m", "/", "v", "1", "/", "o", "r", "g", "a", "n", "i", "z", "a",
    "t", "i", "o", "n", "s", "/", "o", "1", "/", "b", "a", "d", "g", "e", "s", "?", "f",
    "i", "l", "t", "e", "r", "=", "r", "e", "c", "i", "p", "i", "e", "n", "t", "_", "e",
    "m", "a", "i", "l", "_", "a", "l", "l", ":", ":", "a", "%", "4", "0", "b", "%", "7",
    "C", "b", "a", "d", "g", "e", "_", "t", "e", "m", "p", "l", "a", "t", "e", "s", "%",
    "5", "B", "r", "e", "p", "o", "r", "t", "i", "n", "g", "_", "t", "a", "g", "s", "%",
    "5", "D", "%", "3", "A", "%", "3", "A", "c", "1", "%", "2", "C", "c", "%", "2", "C",
    "%", "2", "6">>

URL_NoCollections ==
  <<"h", "t", "t", "p", "s", ":", "/", "/", "a", "p", "i", ".", "c", "r", "e", "d", "l",
    "y", ".", "c", "o", "m", "/", "v", "1", "/", "o", "r", "g", "a", "n", "i", "z", "a",
    "t", "i", "o", "n", "s", "/", "o", "1", "/", "b", "a", "d", "g", "e", "s", "?", "f",
    "i", "l", "t", "e", "r", "=", "r", "e", "c", "i", "p", "i", "e", "n", "t", "_", "e",
    "m", "a", "i", "l", "_", "a", "l", "l", ":", ":", "a", "+", "%", "2", "6", "%", "2",
    "3">>

\* C10: the URL GetBadges requests has one query parameter, filter, and its
\* value, unescaped, is recipient_email_all::{email}, followed when collections
\* is not empty by |badge_templates[reporting_tags]::{collections joined by
\* commas}, and by nothing when it is empty.  Two URLs are spelled out.
C10_GetBadgesFilter ==
  \A p \in Procs :
    (calls[p].op = "GetBadges" /\ calls[p].req # NoReq) =>
      LET query == FilterOf(p)
      IN  /\ Len(query) = 1
          /\ query[1].key = [ok |-> TRUE, s |-> <<"f", "i", "l", "t", "e", "r">>]
          /\ query[1].value.ok
          /\ query[1].value.s
               = RecipientClause(calls[p].args.email)
                   \o (IF Len(calls[p].args.collections) > 0
                         THEN CollectionsClause(calls[p].args.collections)
                         ELSE <<>>)
          /\ (calls[p].args.email = <<"a", "@", "b">>
                /\ calls[p].args.collections = <<(<<"c", "1">>), (<<"c", ",", "&">>)>>) =>
               calls[p].req.URL = URL_TwoCollections
          /\ (calls[p].args.email = <<"a", " ", "&", "#">>
                /\ calls[p].args.collections = <<>>) =>
               calls[p].req.URL = URL_NoCollections

\* GetBadges has made its request for two collections, one of them with a
\* comma and an ampersand in it.
C10_Witness ==
  \E p \in Procs :
    /\ calls[p].op = "GetBadges"
    /\ calls[p].req # NoReq
    /\ calls[p].args.email = <<"a", "@", "b">>
    /\ calls[p].args.collections = <<(<<"c", "1">>), (<<"c", ",", "&">>)>>
    /\ Len(calls[p].sent) = 1

\* GetBadges has made its request for no collection.
C10_WitnessNoCollections ==
  \E p \in Procs :
    /\ calls[p].op = "GetBadges"
    /\ calls[p].req # NoReq
    /\ calls[p].args.collections = <<>>
    /\ calls[p].args.email = <<"a", " ", "&", "#">>
    /\ Len(calls[p].sent) = 1

\* The transport reported an error to the call of p.
TransportFailed(p) == Len(calls[p].sent) > 0 /\ ~calls[p].tOut.err.nil

\* C11: a resource operation that returns an error returns the zero value with
\* it, whether the request could not be made, the transport failed, the status
\* was unexpected or the body did not decode (even when a part of it did); the
\* error of a failed http.NewRequest is returned as it is; and the error of the
\* transport is returned as the transport reported it, with no decoding,
\* whatever response came with it.
C11_FailuresReturnZeroValue ==
  \A p \in Procs : \A op \in AllOps :
    Done(p, op) =>
      /\ ~calls[p].ret.err.nil => calls[p].ret.val = ZeroOf(op)
      /\ Len(calls[p].sent) = 0 =>
           /\ calls[p].ret.err = ControlCharError
           /\ calls[p].req = NoReq
      /\ TransportFailed(p) =>
           /\ calls[p].ret.err = calls[p].tOut.err
           /\ ~calls[p].ret.decoded
      /\ (Answered(p) /\ Status(p) # SuccessStatus(op) /\ op # "GetBadge") =>
           ~calls[p].ret.err.nil

\* GetBadgeTemplates has returned the error of a transport that gave no response.
C11_Witness ==
  \E p \in Procs :
    /\ Done(p, "GetBadgeTemplates")
    /\ TransportFailed(p)
    /\ calls[p].tOut.resp.nil
    /\ calls[p].ret.err.msg = "dial tcp: i/o timeout"
    /\ calls[p].ret.val = <<>>

\* GetBadgeTemplate has returned a decode failure and the zero value from a 200
\* response whose record has a name that decodes and an id that does not.
C11_WitnessPartial ==
  \E p \in Procs :
    /\ Returned(p, "GetBadgeTemplate")
    /\ Status(p) = 200
    /\ DecodeGetBadgeTemplateResponse(RespBody(p)).Data.Name = "n"
    /\ ~calls[p].ret.err.nil
    /\ calls[p].ret.val = EmptyBadgeTemplate

\* IssueBadge has returned the error of http.NewRequest without a request sent.
C11_WitnessNoRequest ==
  \E p \in Procs :
    /\ Done(p, "IssueBadge")
    /\ Len(calls[p].sent) = 0
    /\ calls[p].ret.err.origin = "http.NewRequest"

\* The transport gave the call of p a response, and with it a body.
GotBody(p) == Len(calls[p].sent) > 0 /\ ~calls[p].tOut.resp.nil

\* An operation reads the body of its response through Decode and nowhere else.
BodyRead(p) == calls[p].ret.decoded

\* How often the body of the response was closed by the time the call
\* returned: by the transport before it reported an error, and by the operation.
Closes(p) == (IF calls[p].tOut.resp.BodyClosed THEN 1 ELSE 0) + calls[p].ret.closed

\* C12: by the time a resource operation returns, the body of every response
\* the transport gave it has been read, unless it has no bytes or the transport
\* had closed it already, and has been closed exactly once, on every exit path.
C12_BodyConsumedAndClosedOnce ==
  \A p \in Procs : \A op \in AllOps :
    (Done(p, op) /\ GotBody(p)) =>
      /\ (~calls[p].tOut.resp.BodyClosed /\ RespBody(p) # EmptyBody) => BodyRead(p)
      /\ Closes(p) = 1

\* The part of C12 that the code does: the body of every response is closed
\* exactly once by the time the operation returns, and the operation closes no
\* body when it got no response; the body is read on the paths that decode it
\* and on no other.
C12_BodyClosedOnce ==
  \A p \in Procs : \A op \in AllOps :
    Done(p, op) =>
      /\ GotBody(p) => Closes(p) = 1
      /\ ~GotBody(p) => calls[p].ret.closed = 0
      /\ BodyRead(p) <=>
           (Answered(p) /\ (op = "GetBadge" \/ Status(p) = SuccessStatus(op)))

\* http.NewRequest rejects the URL of the call of p: the organization id, or
\* an argument the operation puts in the URL as it is, has a control character.
HasControlChar(s) == "\t" \in Range(s)

Unbuildable(p) ==
  \/ HasControlChar(client.OrganizationId)
  \/ /\ calls[p].op = "GetBadge"
     /\ HasControlChar(calls[p].args.email) \/ HasControlChar(calls[p].args.badgeId)
  \/ /\ calls[p].op = "GetBadgeTemplate"
     /\ HasControlChar(calls[p].args.templateId)

\* What is left to do for the call of p once Do has returned.
ReturnOf(p) ==
  \/ IssueBadgeReturn(p)
  \/ GetBadgesReturn(p)
  \/ GetBadgeReturn(p)
  \/ GetBadgeTemplateReturn(p)
  \/ GetBadgeTemplatesReturn(p)

\* C13 as stated: every call of a resource operation that has returned has
\* handed exactly one request to the transport, for every input.
C13_ExactlyOneRequestForEveryInput ==
  \A p \in Procs : \A op \in AllOps :
    Done(p, op) => Len(calls[p].sent) = 1

\* C13, amended: a call of a resource operation hands exactly one request to
\* the transport, unless http.NewRequest rejects its URL, and then it hands
\* none and has returned; it never hands a second one, whatever the transport
\* answered; once the transport has answered, the one step left is the return
\* of the operation, which can be taken; and before that the call is not stuck.
C13_OneRequestUnlessUnbuildable ==
  \A p \in Procs : \A op \in AllOps :
    (calls[p].op = op) =>
      /\ Len(calls[p].sent) <= 1
      /\ calls[p].pc = "built" => (Len(calls[p].sent) = 0 /\ ENABLED DoSetHeaders(p))
      /\ calls[p].pc = "headers" => (Len(calls[p].sent) = 0 /\ ENABLED DoSend(p))
      /\ calls[p].pc = "sent" =>
           /\ Len(calls[p].sent) = 1
           /\ ENABLED ReturnOf(p)
           /\ ~ENABLED DoSetHeaders(p)
           /\ ~ENABLED DoSend(p)
      /\ calls[p].pc = "done" =>
           /\ calls[p].ret.set
           /\ Len(calls[p].sent) = (IF Unbuildable(p) THEN 0 ELSE 1)
           /\ ~ENABLED DoSetHeaders(p)
           /\ ~ENABLED DoSend(p)
           /\ ~ENABLED ReturnOf(p)

\* IssueBadge has returned the conflict of a 422 response after one request.
C13_Witness ==
  \E p \in Procs :
    /\ Returned(p, "IssueBadge")
    /\ Status(p) = 422
    /\ Len(calls[p].sent) = 1
    /\ calls[p].ret.err.msg = "User already has this badge"

\* GetBadge has returned without a request: its email has a control character.
C13_WitnessNoRequest ==
  \E p \in Procs :
    /\ Done(p, "GetBadge")
    /\ ~HasControlChar(client.OrganizationId)
    /\ HasControlChar(calls[p].args.email)
    /\ Len(calls[p].sent) = 0

\* GetBadges has returned after one request for an email with a control
\* character, which it escapes.
C13_WitnessEscaped ==
  \E p \in Procs :
    /\ Done(p, "GetBadges")
    /\ HasControlChar(calls[p].args.email)
    /\ Len(calls[p].sent) = 1

\* C14: no step of any operation changes the client: its authToken, its
\* OrganizationId and its HTTPClient stay what NewClient made them; and from
\* the moment a request is made until its call returns, its method, URL and
\* body stay as they are, and so do its headers but for the step of Do that
\* sets them.
C14_ClientImmutable ==
  [][/\ client' = client
     /\ client'.authToken = Credential
     /\ client'.OrganizationId = ctor.organizationId
     /\ client'.HTTPClient = DefaultTransport
     /\ \A p \in Procs :
          calls[p].pc \in {"built", "headers", "sent"} =>
            /\ calls'[p].req.Method = calls[p].req.Method
            /\ calls'[p].req.URL = calls[p].req.URL
            /\ calls'[p].req.Body = calls[p].req.Body
            /\ calls[p].pc # "built" => calls'[p].req.Header = calls[p].req.Header]_vars

\* On a client that served a call before, Do has set the headers of a DELETE
\* request that has a body and has returned the error of the transport.
C14_Witness ==
  \E p \in Procs :
    /\ used
    /\ Done(p, "Do")
    /\ calls[p].req.Method = "DELETE"
    /\ calls[p].req.Body.present
    /\ calls[p].req.Header # calls[p].hdr0
    /\ ~calls[p].doOut.err.nil

\* What an operation returns when it runs alone and the transport answers out.
AloneResult(op, out) ==
  CASE op = "IssueBadge" -> IssueBadgeResult(out)
    [] op = "GetBadges" -> GetBadgesResult(out)
    [] op = "GetBadge" -> GetBadgeResult(out)
    [] op = "GetBadgeTemplate" -> GetBadgeTemplateResult(out)
    [] op = "GetBadgeTemplates" -> GetBadgeTemplatesResult(out)

\* The URL an operation requests for the arguments of the call of p.
OwnURL(p) ==
  CASE calls[p].op = "IssueBadge" -> IssueBadgeURL(client)
    [] calls[p].op = "GetBadges" ->
         GetBadgesURL(client, calls[p].args.email, calls[p].args.collections)
    [] calls[p].op = "GetBadge" ->
         GetBadgeURL(client, calls[p].args.email, calls[p].args.badgeId)
    [] calls[p].op = "GetBadgeTemplate" -> GetBadgeTemplateURL(client, calls[p].args.templateId)
    [] calls[p].op = "GetBadgeTemplates" -> GetBadgeTemplatesURL(client)

\* C15: with two callers on one client, in every interleaving of their calls,
\* each call of a resource operation hands the transport one request, for the
\* URL of its own arguments and with the three fixed headers and no other;
\* what Do gives it is the answer of the transport to its own request; and
\* what it returns is what the operation returns alone on that answer: the
\* conflict error on a 422 to IssueBadge, the first record of the list to
\* GetBadge, the error of the transport when its own request failed.
C15_CallsDoNotInterfere ==
  \A p \in Procs : \A op \in AllOps :
    (calls[p].op = op) =>
      /\ Len(calls[p].sent) <= 1
      /\ \A i \in 1..Len(calls[p].sent) :
           /\ calls[p].sent[i].URL = OwnURL(p)
           /\ calls[p].sent[i].Header
                = [k \in FixedHeaders |->
                     IF k = "Authorization"
                       THEN <<(<<"B", "a", "s", "i", "c", " ", "d", "H", "w", "=">>)>>
                       ELSE <<(<<"a", "p", "p", "l", "i", "c", "a", "t", "i", "o", "n", "/",
                                 "j", "s", "o", "n">>)>>]
      /\ calls[p].pc \in {"sent", "done"} /\ Len(calls[p].sent) = 1 =>
           calls[p].doOut = calls[p].tOut
      /\ (Done(p, op) /\ Len(calls[p].sent) = 1) =>
           /\ calls[p].ret = AloneResult(op, calls[p].tOut)
           /\ TransportFailed(p) => calls[p].ret.err = calls[p].tOut.err
           /\ (Answered(p) /\ op = "IssueBadge" /\ Status(p) = 422) =>
                calls[p].ret.err.msg = "User already has this badge"
           /\ (Answered(p) /\ op = "IssueBadge" /\ Status(p) = 201
                 /\ IsRecordEnvelope(RespBody(p))) =>
                (calls[p].ret.err.nil /\ calls[p].ret.val.Id = "badge-123")
           /\ (Answered(p) /\ op = "GetBadge" /\ IsListEnvelope(RespBody(p))) =>
                (calls[p].ret.err.nil /\ calls[p].ret.val.Id = "badge-456")

\* Two calls are in progress at once, each holding the answer to its own
\* request: a 422 for the IssueBadge of one caller, a list of two records
\* with status 200 for the GetBadge of the other.
C15_Witness ==
  /\ calls["p1"].pc = "sent"
  /\ calls["p1"].op = "IssueBadge"
  /\ Answered("p1")
  /\ Status("p1") = 422
  /\ calls["p2"].pc = "sent"
  /\ calls["p2"].op = "GetBadge"
  /\ Answered("p2")
  /\ Status("p2") = 200
  /\ IsListEnvelope(calls["p2"].tOut.resp.Body)

\* Both calls have returned, one the badge of its 201 response and the other
\* the error of the transport, on a client that served calls before.
C15_WitnessReturned ==
  /\ used
  /\ Done("p1", "IssueBadge")
  /\ Answered("p1")
  /\ calls["p1"].ret.err.nil
  /\ calls["p1"].ret.val.Id = "badge-123"
  /\ Done("p2", "IssueBadge")
  /\ TransportFailed("p2")
  /\ calls["p2"].ret.err.msg = "dial tcp: i/o timeout"

=============================================================================
